---- MODULE Spec2Model ----
(***************************************************************************)
(* Model of app.py: a Flask application keeping per-user travel spots in   *)
(* a SQLite store (Flask-SQLAlchemy), with flask-login sessions.           *)
(*                                                                         *)
(* Conventions.  A Python value that may be None is an option: None is the *)
(* empty tuple and Some(x) the one-element tuple <<x>>.  Text the program  *)
(* inspects character by character (city, city filter, lat, lng) is a      *)
(* sequence of one-character strings; other text is a TLA+ string.  A      *)
(* float is kept as an integer number of thousandths.                      *)
(***************************************************************************)
EXTENDS Integers, Sequences, FiniteSets, TLC

None == <<>>
Some(x) == <<x>>
IsSome(o) == o # None
Val(o) == o[1]

\* Python truthiness of an optional form string: None and "" are falsy.
Truthy(o) == IsSome(o) /\ Val(o) # <<>>

----------------------------------------------------------------------------
(* Bounds of the model *)

\* Largest Spot id the store is driven to (ids are not bounded in the code).
MaxSpotId == 2

----------------------------------------------------------------------------
(* Inputs *)

Clients == {"c1"}
Usernames == {"alice", "bob"}
Passwords == {"pw1", "pw2"}
Salts == {"s1"}

Kyoto == <<"K", "y", "o", "t", "o">>
Taipei == <<"T", "a", "i", "p", "e", "i">>

\* Submitted spot forms: request.form of POST /add and POST /edit/<id>.
FormTower ==
    [name |-> Some("Tower"), city |-> Some(Taipei), comment |-> Some(""),
     lat |-> Some(<<"9", "1">>), lng |-> Some(<<>>)]
FormBlank ==
    [name |-> Some(""), city |-> None, comment |-> None,
     lat |-> None, lng |-> Some(<<"1", "3", "5", ".", "8">>)]
FormBadLat ==
    [name |-> Some("Cafe"), city |-> Some(Kyoto), comment |-> Some("x"),
     lat |-> Some(<<"a", "b", "c">>), lng |-> Some(<<"1">>)]
FormBadLng ==
    [name |-> Some("Cafe"), city |-> Some(Kyoto), comment |-> Some("x"),
     lat |-> Some(<<"3", "5", ".", "0">>), lng |-> Some(<<"-">>)]
FormNoName ==
    [name |-> None, city |-> Some(Kyoto), comment |-> None,
     lat |-> Some(<<"1">>), lng |-> Some(<<"1">>)]

SpotForms == {FormTower, FormBlank, FormBadLat, FormBadLng, FormNoName}

\* Values of the city query parameter of GET /.
CityFilters ==
    {None, Some(<<>>), Some(<<"T", "a", "i">>), Some(<<"t", "a", "i">>),
     Some(<<"K", "y", "o">>), Some(<<"%">>), Some(<<"a", "_", "p">>),
     Some(<<"T", "%", "e">>)}

----------------------------------------------------------------------------
(* Library functions the handlers call *)

Max(S) == CHOOSE m \in S : \A x \in S : x <= m
Min(S) == CHOOSE m \in S : \A x \in S : m <= x

\* werkzeug's password hash: a one-way, collision-free digest of salt and
\* password, kept as an opaque term.
Digest(salt, password) == <<"pbkdf2", salt, password>>

\* generate_password_hash(password) with the salt it drew.
generate_password_hash(salt, password) ==
    [salt |-> salt, hashval |-> Digest(salt, password)]

\* check_password_hash(pwhash, password): recompute with the stored salt.
check_password_hash(pwhash, password) ==
    Digest(pwhash.salt, password) = pwhash.hashval

\* ASCII case folding, as SQLite's LIKE applies it.
LowerCase == <<"a", "b", "c", "d", "e", "f", "g", "h", "i", "j", "k", "l", "m",
               "n", "o", "p", "q", "r", "s", "t", "u", "v", "w", "x", "y", "z">>
UpperCase == <<"A", "B", "C", "D", "E", "F", "G", "H", "I", "J", "K", "L", "M",
               "N", "O", "P", "Q", "R", "S", "T", "U", "V", "W", "X", "Y", "Z">>
Upper(c) ==
    IF \E k \in 1..26 : LowerCase[k] = c
    THEN UpperCase[CHOOSE k \in 1..26 : LowerCase[k] = c]
    ELSE c

\* A byte-wise comparison, as with PRAGMA case_sensitive_like.
LikeCharExact(a, b) == a = b

\* SQLite's comparison of two characters in LIKE.
LikeCharEq(a, b) == Upper(a) = Upper(b)

\* SQLite's LIKE without an ESCAPE clause: % matches any run of characters,
\* _ matches one character, anything else matches itself up to ASCII case.
RECURSIVE LikeMatch(_, _)
LikeMatch(pattern, str) ==
    IF pattern = <<>> THEN str = <<>>
    ELSE IF Head(pattern) = "%"
         THEN \E k \in 0..Len(str) :
                  LikeMatch(Tail(pattern), SubSeq(str, k + 1, Len(str)))
    ELSE IF str = <<>> THEN FALSE
    ELSE IF Head(pattern) = "_" THEN LikeMatch(Tail(pattern), Tail(str))
    ELSE LikeCharEq(Head(pattern), Head(str))
         /\ LikeMatch(Tail(pattern), Tail(str))

\* Spot.city.contains(city): city LIKE '%' || :city || '%'; NULL LIKE x is
\* NULL, which the WHERE clause rejects.
CityContains(city, filter) ==
    IsSome(city) /\ LikeMatch(<<"%">> \o filter \o <<"%">>, Val(city))

DigitChars == <<"0", "1", "2", "3", "4", "5", "6", "7", "8", "9">>
IsDigit(c) == \E k \in 1..10 : DigitChars[k] = c
DigitVal(c) == (CHOOSE k \in 1..10 : DigitChars[k] = c) - 1
AllDigits(s) == \A k \in 1..Len(s) : IsDigit(s[k])

RECURSIVE ToNat(_)
ToNat(s) ==
    IF s = <<>> THEN 0
    ELSE ToNat(SubSeq(s, 1, Len(s) - 1)) * 10 + DigitVal(s[Len(s)])

\* Python's float(str) on decimal literals: [sign] digits [. digits] or
\* [sign] . digits.  Some(thousandths) on success, None for ValueError.
\* Fraction digits beyond the third are below the model's resolution.
float(s) ==
    LET signed == s # <<>> /\ Head(s) \in {"+", "-"}
        body == IF signed THEN Tail(s) ELSE s
        dots == {k \in 1..Len(body) : body[k] = "."}
        dot == IF dots = {} THEN Len(body) + 1 ELSE Min(dots)
        whole == SubSeq(body, 1, dot - 1)
        frac == SubSeq(body, dot + 1, Len(body))
        frac3 == SubSeq(frac \o <<"0", "0", "0">>, 1, 3)
        mag == ToNat(whole) * 1000 + ToNat(frac3)
    IN IF AllDigits(whole) /\ AllDigits(frac) /\ Len(whole) + Len(frac) > 0
       THEN Some(IF signed /\ Head(s) = "-" THEN 0 - mag ELSE mag)
       ELSE None

----------------------------------------------------------------------------
(* State *)

VARIABLES
    users,      \* table user: sequence of rows, the id of a row is its index
    spots,      \* table spot: function from the ids in use to rows
    session,    \* per client, the user id flask-login keeps (Anonymous if none)
    pending,    \* per register request in flight: the form that passed the lookup
    last        \* the last request handled and its response

vars == <<users, spots, session, pending, last>>

\* flask-login's anonymous user: no user id in the session.
Anonymous == 0

Requests == {"r1", "r2"}

Boot == [op |-> "boot", method |-> "", client |-> "", user |-> Anonymous,
         id |-> 0, form |-> None, result |-> "OK", data |-> <<>>]

Init ==
    /\ users = <<>>
    /\ spots = <<>>
    /\ session = [c \in Clients |-> Anonymous]
    /\ pending = [r \in Requests |-> None]
    /\ last = Boot

\* The record of a handled request.
Response(op, method, client, id, form, result, data) ==
    [op |-> op, method |-> method, client |-> client, user |-> session[client],
     id |-> id, form |-> form, result |-> result, data |-> data]

----------------------------------------------------------------------------
(* Store operations *)

\* User.query.filter_by(username=...).first(): 0 when there is no such row.
FindUser(us, username) ==
    LET hits == {i \in DOMAIN us : Some(us[i].username) = username}
    IN IF hits = {} THEN 0 ELSE Min(hits)

\* A user table without the UNIQUE constraint.
NoUniqueConstraint(us, username) == FALSE

\* The UNIQUE constraint on user.username.
UniqueViolation(us, username) ==
    \E i \in DOMAIN us : us[i].username = username

\* SQLite's rowid for a new spot row: one more than the largest in use.
NextSpotId(sp) == IF DOMAIN sp = {} THEN 1 ELSE Max(DOMAIN sp) + 1

\* db.session.add(spot); db.session.commit()
InsertSpot(sp, row) ==
    [i \in DOMAIN sp \cup {NextSpotId(sp)} |->
        IF i = NextSpotId(sp) THEN row ELSE sp[i]]

\* A delete that is never committed.
DeleteSpotUncommitted(sp, id) == sp

\* db.session.delete(spot); db.session.commit()
DeleteSpot(sp, id) == [i \in DOMAIN sp \ {id} |-> sp[i]]

\* QuerySpots without filter_by(user_id=...).
QuerySpotsAllOwners(sp, uid, filter) ==
    LET hits == IF Truthy(filter)
                THEN {i \in DOMAIN sp : CityContains(sp[i].city, Val(filter))}
                ELSE DOMAIN sp
    IN [i \in hits |-> sp[i]]

\* Spot.query.filter_by(user_id=uid), optionally narrowed by the city filter.
QuerySpots(sp, uid, filter) ==
    LET owned == {i \in DOMAIN sp : sp[i].user_id = uid}
        hits == IF Truthy(filter)
                THEN {i \in owned : CityContains(sp[i].city, Val(filter))}
                ELSE owned
    IN [i \in hits |-> sp[i]]

----------------------------------------------------------------------------
(* Handlers, one action per route *)

\* A route without the @login_required decorator.
login_not_required(sess, c) == TRUE

\* @login_required: the request goes on only with a user id in the session.
login_required(sess, c) == sess[c] # Anonymous

Credentials ==
    [username : {Some(u) : u \in Usernames} \cup {None},
     password : {Some(p) : p \in Passwords} \cup {None}]

FilterForm(f) == [city |-> f]

Methods == {"GET", "POST"}
SpotIds == 1..MaxSpotId

\* A GET request carries no form.
NoForm == [name |-> None, city |-> None, comment |-> None, lat |-> None, lng |-> None]
NoCred == [username |-> None, password |-> None]

\* GET /
index(c, filter) ==
    /\ last' = IF ~login_required(session, c)
               THEN Response("index", "GET", c, 0, FilterForm(filter),
                             "Unauthenticated", <<>>)
               ELSE Response("index", "GET", c, 0, FilterForm(filter), "OK",
                             QuerySpots(spots, session[c], filter))
    /\ UNCHANGED <<users, spots, session, pending>>

\* GET /map
map_view(c) ==
    /\ last' = IF ~login_required(session, c)
               THEN Response("map_view", "GET", c, 0, None, "Unauthenticated", <<>>)
               ELSE Response("map_view", "GET", c, 0, None, "OK",
                             QuerySpots(spots, session[c], None))
    /\ UNCHANGED <<users, spots, session, pending>>

\* The outcome of POST /login: the response and the user id logged in.
LoginOutcome(us, cred) ==
    LET uid == FindUser(us, cred.username)
    IN IF uid = 0 THEN [result |-> "InvalidCredentials", uid |-> 0]
       ELSE IF cred.password = None THEN [result |-> "Fatal", uid |-> 0]
       ELSE IF check_password_hash(us[uid].password, Val(cred.password))
            THEN [result |-> "OK", uid |-> uid]
            ELSE [result |-> "InvalidCredentials", uid |-> 0]

\* GET /login and POST /login
login(c, method, cred) ==
    /\ IF method = "GET"
       THEN /\ cred = NoCred
            /\ last' = Response("login", method, c, 0, cred, "OK", <<>>)
            /\ UNCHANGED session
       ELSE LET out == LoginOutcome(users, cred)
            IN /\ last' = Response("login", method, c, 0, cred, out.result, <<>>)
               /\ session' = IF out.result = "OK"
                             THEN [session EXCEPT ![c] = out.uid]
                             ELSE session
    /\ UNCHANGED <<users, spots, pending>>

\* GET /logout
logout(c) ==
    /\ IF ~login_required(session, c)
       THEN /\ last' = Response("logout", "GET", c, 0, None, "Unauthenticated", <<>>)
            /\ UNCHANGED session
       ELSE /\ last' = Response("logout", "GET", c, 0, None, "OK", <<>>)
            /\ session' = [session EXCEPT ![c] = Anonymous]
    /\ UNCHANGED <<users, spots, pending>>

\* RegisterLookup without the query for an existing username.
RegisterLookupNoQuery(us, cred) ==
    IF cred.username = None \/ cred.password = None THEN "BadRequest" ELSE "OK"

\* register, up to the lookup: request.form[...] and the username query.
RegisterLookup(us, cred) ==
    IF cred.username = None \/ cred.password = None THEN "BadRequest"
    ELSE IF FindUser(us, cred.username) # 0 THEN "DuplicateUsername"
    ELSE "OK"

\* register, from the insert on: set_password, add, commit.  The commit
\* raises IntegrityError when the UNIQUE constraint rejects the row.
RegisterCommit(us, salt, cred) ==
    IF UniqueViolation(us, Val(cred.username))
    THEN [result |-> "Fatal", users |-> us]
    ELSE [result |-> "OK",
          users |-> Append(us, [username |-> Val(cred.username),
                                password |-> generate_password_hash(
                                                 salt, Val(cred.password))])]

\* GET /register and POST /register, handled without interruption
register(c, method, cred) ==
    /\ IF method = "GET"
       THEN /\ cred = NoCred
            /\ last' = Response("register", method, c, 0, cred, "OK", <<>>)
            /\ UNCHANGED users
       ELSE IF RegisterLookup(users, cred) # "OK"
       THEN /\ last' = Response("register", method, c, 0, cred,
                                RegisterLookup(users, cred), <<>>)
            /\ UNCHANGED users
       ELSE \E salt \in Salts :
               LET out == RegisterCommit(users, salt, cred)
               IN /\ last' = Response("register", method, c, 0, cred, out.result, <<>>)
                  /\ users' = out.users
    /\ UNCHANGED <<spots, session, pending>>

\* float(lat) raises ValueError in "float(lat) if lat else None".
CoordRaises(field) == Truthy(field) /\ float(Val(field)) = None

\* The value of "float(lat) if lat else None" when nothing is raised.
Coord(field) == IF Truthy(field) THEN float(Val(field)) ELSE None

\* NewSpot without user_id=current_user.id: the column stays NULL.
NewSpotNoOwner(form, uid) ==
    [name |-> Val(form.name), city |-> form.city, comment |-> form.comment,
     lat |-> Coord(form.lat), lng |-> Coord(form.lng),
     user_id |-> Anonymous]

\* Spot(name=..., city=..., comment=..., lat=..., lng=..., user_id=current_user.id)
NewSpot(form, uid) ==
    [name |-> Val(form.name), city |-> form.city, comment |-> form.comment,
     lat |-> Coord(form.lat), lng |-> Coord(form.lng),
     user_id |-> uid]

\* The body of POST /add up to the commit: the Spot built, or the error.
BuildSpot(form, uid) ==
    IF form.name = None THEN [result |-> "BadRequest"]
    ELSE IF CoordRaises(form.lat) THEN [result |-> "Fatal"]
    ELSE IF CoordRaises(form.lng) THEN [result |-> "Fatal"]
    ELSE [result |-> "OK", row |-> NewSpot(form, uid)]

\* GET /add and POST /add
add_spot(c, method, form) ==
    /\ method = "GET" => form = NoForm
    /\ IF ~login_required(session, c)
       THEN /\ last' = Response("add_spot", method, c, 0, form, "Unauthenticated", <<>>)
            /\ UNCHANGED spots
       ELSE IF method = "GET"
       THEN /\ last' = Response("add_spot", method, c, 0, form, "OK", <<>>)
            /\ UNCHANGED spots
       ELSE LET built == BuildSpot(form, session[c])
            IN IF built.result # "OK"
               THEN /\ last' = Response("add_spot", method, c, 0, form,
                                        built.result, <<>>)
                    /\ UNCHANGED spots
               ELSE /\ NextSpotId(spots) <= MaxSpotId
                    /\ last' = Response("add_spot", method, c, NextSpotId(spots),
                                        form, "OK", <<>>)
                    /\ spots' = InsertSpot(spots, built.row)
    /\ UNCHANGED <<users, session, pending>>

\* The assignments of POST /edit/<id> on the loaded row, in program order,
\* up to the first error: the row as it stands in the session, and the result.
AssignSpot(row, form) ==
    IF form.name = None THEN [result |-> "BadRequest", row |-> row]
    ELSE LET named == [row EXCEPT !.name = Val(form.name), !.city = form.city,
                                  !.comment = form.comment]
         IN IF CoordRaises(form.lat) THEN [result |-> "Fatal", row |-> named]
            ELSE LET placed == [named EXCEPT !.lat = Coord(form.lat)]
                 IN IF CoordRaises(form.lng)
                    THEN [result |-> "Fatal", row |-> placed]
                    ELSE [result |-> "OK",
                          row |-> [placed EXCEPT !.lng = Coord(form.lng)]]

\* A session that writes every assignment through as it is made.
EndOfRequestWriteThrough(sp, id, assigned) == [sp EXCEPT ![id] = assigned.row]

\* What the store holds once the request is over: db.session.commit() writes
\* the row; a request that raised never commits and its session is discarded.
EndOfRequest(sp, id, assigned) ==
    IF assigned.result = "OK" THEN [sp EXCEPT ![id] = assigned.row] ELSE sp

\* Gate without the comparison of spot.user_id and current_user.id.
GateNoOwnerCheck(sp, uid, id) ==
    IF id \notin DOMAIN sp THEN "NotFound" ELSE "OK"

\* The ownership gate of edit_spot and delete_spot, after login_required.
Gate(sp, uid, id) ==
    IF id \notin DOMAIN sp THEN "NotFound"
    ELSE IF sp[id].user_id # uid THEN "Forbidden"
    ELSE "OK"

\* GET /edit/<id> and POST /edit/<id>
edit_spot(c, id, method, form) ==
    /\ method = "GET" => form = NoForm
    /\ IF ~login_required(session, c)
       THEN /\ last' = Response("edit_spot", method, c, id, form, "Unauthenticated", <<>>)
            /\ UNCHANGED spots
       ELSE IF Gate(spots, session[c], id) # "OK"
       THEN /\ last' = Response("edit_spot", method, c, id, form,
                                Gate(spots, session[c], id), <<>>)
            /\ UNCHANGED spots
       ELSE IF method = "GET"
       THEN /\ last' = Response("edit_spot", method, c, id, form, "OK",
                                [i \in {id} |-> spots[i]])
            /\ UNCHANGED spots
       ELSE LET assigned == AssignSpot(spots[id], form)
            IN /\ last' = Response("edit_spot", method, c, id, form,
                                   assigned.result, <<>>)
               /\ spots' = EndOfRequest(spots, id, assigned)
    /\ UNCHANGED <<users, session, pending>>

\* GET /delete/<id>
delete_spot(c, id) ==
    /\ IF ~login_required(session, c)
       THEN /\ last' = Response("delete_spot", "GET", c, id, None, "Unauthenticated", <<>>)
            /\ UNCHANGED spots
       ELSE IF Gate(spots, session[c], id) # "OK"
       THEN /\ last' = Response("delete_spot", "GET", c, id, None,
                                Gate(spots, session[c], id), <<>>)
            /\ UNCHANGED spots
       ELSE /\ last' = Response("delete_spot", "GET", c, id, None, "OK", <<>>)
            /\ spots' = DeleteSpot(spots, id)
    /\ UNCHANGED <<users, session, pending>>

Next ==
    \/ \E c \in Clients, f \in CityFilters : index(c, f)
    \/ \E c \in Clients : map_view(c)
    \/ \E c \in Clients, m \in Methods, cred \in Credentials : login(c, m, cred)
    \/ \E c \in Clients : logout(c)
    \/ \E c \in Clients, m \in Methods, cred \in Credentials : register(c, m, cred)
    \/ \E c \in Clients, m \in Methods, form \in SpotForms \cup {NoForm} :
           add_spot(c, m, form)
    \/ \E c \in Clients, id \in SpotIds, m \in Methods, form \in SpotForms \cup {NoForm} :
           edit_spot(c, id, m, form)
    \/ \E c \in Clients, id \in SpotIds : delete_spot(c, id)

Spec == Init /\ [][Next]_vars

----------------------------------------------------------------------------
(* Concurrent register requests: the lookup and the commit of one request *)
(* are separate steps, and other requests run in between.                  *)

RaceResponse(r, cred, result) ==
    [op |-> "register", method |-> "POST", client |-> r, user |-> Anonymous,
     id |-> 0, form |-> cred, result |-> result, data |-> <<>>]

\* POST /register up to the username lookup
register_lookup(r, cred) ==
    /\ pending[r] = None
    /\ IF RegisterLookup(users, cred) = "OK"
       THEN /\ pending' = [pending EXCEPT ![r] = Some(cred)]
            /\ UNCHANGED last
       ELSE /\ last' = RaceResponse(r, cred, RegisterLookup(users, cred))
            /\ UNCHANGED pending
    /\ UNCHANGED <<users, spots, session>>

\* POST /register from the insert to the response
register_commit(r, salt) ==
    /\ pending[r] # None
    /\ LET out == RegisterCommit(users, salt, Val(pending[r]))
       IN /\ users' = out.users
          /\ last' = RaceResponse(r, Val(pending[r]), out.result)
    /\ pending' = [pending EXCEPT ![r] = None]
    /\ UNCHANGED <<spots, session>>

NextRace ==
    \/ \E r \in Requests, cred \in Credentials : register_lookup(r, cred)
    \/ \E r \in Requests, salt \in Salts : register_commit(r, salt)
    \/ \E c \in Clients, cred \in Credentials : login(c, "POST", cred)
    \/ \E c \in Clients : logout(c)

SpecRace == Init /\ [][NextRace]_vars

----------------------------------------------------------------------------
(* Properties *)

ProtectedOps == {"index", "add_spot", "edit_spot", "delete_spot", "map_view", "logout"}

\* The step handled a request to edit or delete an existing spot that the
\* requesting user does not own.
NonOwnerRequest ==
    /\ last'.op \in {"edit_spot", "delete_spot"}
    /\ last'.user # Anonymous
    /\ last'.id \in DOMAIN spots
    /\ spots[last'.id].user_id # last'.user

\* C1: a GET or POST of /edit/<id> and a /delete/<id> by an authenticated user
\* who does not own the spot is answered Forbidden whatever form it carries,
\* shows no spot, and leaves the whole store, that spot included, as it was.
C1_NonOwnerForbidden ==
    [][NonOwnerRequest =>
          /\ last'.result = "Forbidden"
          /\ last'.data = <<>>
          /\ spots' = spots
          /\ last'.id \in DOMAIN spots' /\ spots'[last'.id] = spots[last'.id]]_vars

\* A non-owner's POST /edit/<id> with an unparsable latitude was refused and
\* the spot is still stored under the other user's id.
C1_Witness ==
    /\ last.op = "edit_spot" /\ last.method = "POST" /\ last.form = FormBadLat
    /\ last.result = "Forbidden"
    /\ last.id \in DOMAIN spots /\ spots[last.id].user_id # last.user

\* C2: the unfiltered listing (GET / without a city, GET /map) shown to user u
\* is exactly the stored spots whose owner is u, each with its stored fields.
C2_ListIsOwnedSpots ==
    (/\ last.op \in {"index", "map_view"}
     /\ last.result = "OK"
     /\ (last.op = "index" => ~Truthy(last.form.city)))
    => /\ DOMAIN last.data \subseteq DOMAIN spots
       /\ \A i \in DOMAIN spots :
             (i \in DOMAIN last.data) <=> (spots[i].user_id = last.user)
       /\ \A i \in DOMAIN last.data : last.data[i] = spots[i]

\* A listing that shows one spot of the user while another user's spot is stored.
C2_Witness ==
    /\ last.op \in {"index", "map_view"} /\ last.result = "OK"
    /\ (last.op = "index" => ~Truthy(last.form.city))
    /\ DOMAIN last.data # {}
    /\ \E i \in DOMAIN spots : spots[i].user_id # last.user

\* C3: a protected route requested without a logged-in user answers
\* Unauthenticated, shows no spot and changes neither the users, the spots nor
\* the session; and a client's session takes a new user id only in a POST
\* /login by that client whose username and password verify against that user.
C3_AnonymousRefused ==
    [][/\ (last'.op \in ProtectedOps /\ last'.user = Anonymous)
          => /\ last'.result = "Unauthenticated"
             /\ last'.data = <<>>
             /\ users' = users /\ spots' = spots /\ session' = session
       /\ \A c \in Clients :
             (session'[c] # session[c] /\ session'[c] # Anonymous)
             => /\ last'.op = "login" /\ last'.method = "POST" /\ last'.client = c
                /\ session'[c] \in DOMAIN users
                /\ Some(users[session'[c]].username) = last'.form.username
                /\ IsSome(last'.form.password)
                /\ check_password_hash(users[session'[c]].password,
                                       Val(last'.form.password))]_vars

\* An anonymous POST /add with a valid form was refused while users exist.
C3_Witness ==
    /\ last.op = "add_spot" /\ last.method = "POST" /\ last.form = FormTower
    /\ last.user = Anonymous /\ last.result = "Unauthenticated"
    /\ users # <<>>

\* The step handled a POST /register that carried both fields.
RegisterRequest ==
    /\ last'.op = "register" /\ last'.method = "POST"
    /\ IsSome(last'.form.username) /\ IsSome(last'.form.password)

\* C4: a register on an unused username creates one user with whom login
\* succeeds for exactly the registered password; a register on a used username
\* answers DuplicateUsername and leaves the users as they were, so every login
\* ends as it would have before; and no step changes a stored user.
C4_RegisterThenLogin ==
    [][/\ RegisterRequest =>
             IF FindUser(users, last'.form.username) = 0
             THEN /\ last'.result = "OK"
                  /\ Len(users') = Len(users) + 1
                  /\ \A p \in Passwords :
                        (LoginOutcome(users', [username |-> last'.form.username,
                                               password |-> Some(p)]).result = "OK")
                        <=> (Some(p) = last'.form.password)
             ELSE /\ last'.result = "DuplicateUsername"
                  /\ users' = users
                  /\ \A cred \in Credentials :
                        LoginOutcome(users', cred) = LoginOutcome(users, cred)
       /\ \A i \in DOMAIN users : i \in DOMAIN users' /\ users'[i] = users[i]]_vars

\* A register on a used username, with a password other than the stored
\* one, was refused as a duplicate.
C4_Witness ==
    /\ last.op = "register" /\ last.result = "DuplicateUsername"
    /\ FindUser(users, last.form.username) # 0
    /\ ~check_password_hash(users[FindUser(users, last.form.username)].password,
                            Val(last.form.password))
    /\ Len(users) = 1

\* C5: a POST /add with an empty name answers ValidationError and stores
\* nothing, so that no stored spot has an empty name.
C5_EmptyNameRejected ==
    /\ (/\ last.op = "add_spot" /\ last.method = "POST"
        /\ last.user # Anonymous /\ last.form.name = Some(""))
       => last.result = "ValidationError"
    /\ \A i \in DOMAIN spots : spots[i].name # ""

\* s contains f as a run of equal characters.
ContainsExactly(s, f) ==
    \E k \in 0..(Len(s) - Len(f)) : SubSeq(s, k + 1, k + Len(f)) = f

\* C6 as stated: with a non-empty filter GET / shows exactly the user's spots
\* whose city contains the filter as a case-sensitive substring.
C6_CaseSensitiveSubstring ==
    (last.op = "index" /\ last.result = "OK" /\ Truthy(last.form.city))
    => DOMAIN last.data =
          {i \in DOMAIN spots :
              /\ spots[i].user_id = last.user
              /\ IsSome(spots[i].city)
              /\ ContainsExactly(Val(spots[i].city), Val(last.form.city))}

\* s matches '%' || f || '%': the characters of f other than % lie in s at
\* increasing places, adjacent where they are adjacent in f, each equal to the
\* character of s at its place up to ASCII case, or being _.
LikeContains(s, f) ==
    LET plain == {k \in 1..Len(f) : f[k] # "%"}
    IN \E place \in [plain -> 1..Len(s)] :
          /\ \A k \in plain : f[k] = "_" \/ Upper(f[k]) = Upper(s[place[k]])
          /\ \A j, k \in plain :
                j < k => IF k = j + 1 THEN place[k] = place[j] + 1
                         ELSE place[k] > place[j]

\* C6 amended: with a non-empty filter GET / shows exactly the user's spots
\* whose city is not NULL and matches LIKE '%filter%' as SQLite evaluates it
\* (letters compare without regard to ASCII case, % and _ in the filter are
\* wildcards); with an empty or absent filter it shows all the user's spots.
C6_LikeSubstring ==
    (last.op = "index" /\ last.result = "OK")
    => DOMAIN last.data =
          {i \in DOMAIN spots :
              /\ spots[i].user_id = last.user
              /\ Truthy(last.form.city)
                 => /\ IsSome(spots[i].city)
                    /\ LikeContains(Val(spots[i].city), Val(last.form.city))}

\* The filter "tai" showed a spot whose city is "Taipei" and left out a spot
\* of the same user that has no city.
C6_Witness ==
    /\ last.op = "index" /\ last.result = "OK"
    /\ last.form.city = Some(<<"t", "a", "i">>)
    /\ \E i \in DOMAIN last.data : last.data[i].city = Some(Taipei)
    /\ \E i \in DOMAIN spots :
          spots[i].user_id = last.user /\ spots[i].city = None

\* C7: a /delete/<id> of an id that is not stored answers NotFound and leaves
\* the store as it was; a delete that succeeds is the owner's, removes that
\* row only, and leaves the id such that the next delete or lookup of it is
\* NotFound and no listing shows it; and a row enters the store only as the
\* new spot of a successful POST /add.
C7_DeleteThenNotFound ==
    [][/\ (last'.op = "delete_spot" /\ last'.user # Anonymous
           /\ last'.id \notin DOMAIN spots)
          => /\ last'.result = "NotFound"
             /\ spots' = spots /\ users' = users
       /\ (last'.op = "delete_spot" /\ last'.result = "OK")
          => /\ last'.id \in DOMAIN spots
             /\ spots[last'.id].user_id = last'.user
             /\ DOMAIN spots' = DOMAIN spots \ {last'.id}
             /\ \A i \in DOMAIN spots' : spots'[i] = spots[i]
             /\ \A u \in DOMAIN users : Gate(spots', u, last'.id) = "NotFound"
             /\ \A u \in DOMAIN users, f \in CityFilters :
                   last'.id \notin DOMAIN QuerySpots(spots', u, f)
       /\ \A i \in DOMAIN spots' \ DOMAIN spots :
             last'.op = "add_spot" /\ last'.result = "OK" /\ last'.id = i]_vars

\* A logged-in user's delete of an id that is not stored, while another spot
\* of that user is, was answered NotFound.
C7_Witness ==
    /\ last.op = "delete_spot" /\ last.result = "NotFound"
    /\ last.user # Anonymous
    /\ \E i \in DOMAIN spots : spots[i].user_id = last.user

\* C8: every stored spot is owned by a stored user; a new spot is owned by
\* the user logged in on the request that created it; and no step changes
\* the owner of a spot that stays in the store.
C8_OwnerFixed ==
    [][/\ \A i \in DOMAIN spots' : spots'[i].user_id \in DOMAIN users'
       /\ \A i \in DOMAIN spots' \ DOMAIN spots :
             /\ last'.op = "add_spot"
             /\ last'.user # Anonymous
             /\ spots'[i].user_id = last'.user
       /\ \A i \in DOMAIN spots' \cap DOMAIN spots :
             spots'[i].user_id = spots[i].user_id]_vars

\* A successful POST /edit/<id> changed a spot while two users exist.
C8_Witness ==
    /\ last.op = "edit_spot" /\ last.method = "POST" /\ last.result = "OK"
    /\ spots[last.id].user_id = last.user
    /\ Len(users) = 2

\* The coordinate strings the forms submit, with the numbers they denote in
\* thousandths; the other non-empty strings the forms submit are not numbers.
Ninety1 == <<"9", "1">>
Decimal135 == <<"1", "3", "5", ".", "8">>
Decimal35 == <<"3", "5", ".", "0">>
One == <<"1">>
Denoted(field) ==
    IF ~IsSome(field) \/ Val(field) = <<>> THEN None
    ELSE IF Val(field) = Ninety1 THEN Some(91000)
    ELSE IF Val(field) = Decimal135 THEN Some(135800)
    ELSE IF Val(field) = Decimal35 THEN Some(35000)
    ELSE Some(1000)
NotANumber(field) ==
    IsSome(field) /\ Val(field) \notin {<<>>, Ninety1, Decimal135, Decimal35, One}

\* The step handled a POST /add, or a POST /edit/<id> by the owner of the
\* spot, that carried a name.
WriteRequest ==
    /\ last'.op \in {"add_spot", "edit_spot"} /\ last'.method = "POST"
    /\ last'.user # Anonymous
    /\ IsSome(last'.form.name)
    /\ last'.op = "edit_spot"
       => last'.id \in DOMAIN spots /\ spots[last'.id].user_id = last'.user

\* C9: in POST /add and the owner's POST /edit/<id>, a lat or lng that is not
\* a number ends the request with a fatal error and the store as it was,
\* every field of the edited spot included; otherwise the request succeeds
\* and the spot holds NULL for an empty or absent lat or lng and the number
\* submitted for any other, whatever its range.
C9_CoordinateParse ==
    [][WriteRequest =>
          IF NotANumber(last'.form.lat) \/ NotANumber(last'.form.lng)
          THEN /\ last'.result = "Fatal"
               /\ spots' = spots
          ELSE /\ last'.result = "OK"
               /\ last'.id \in DOMAIN spots'
               /\ spots'[last'.id].lat = Denoted(last'.form.lat)
               /\ spots'[last'.id].lng = Denoted(last'.form.lng)
               /\ spots'[last'.id].name = Val(last'.form.name)]_vars

\* The owner's POST /edit/<id> with a parsable lat and an unparsable lng
\* failed, and the stored spot has neither the name nor the lat submitted.
C9_Witness ==
    /\ last.op = "edit_spot" /\ last.method = "POST" /\ last.form = FormBadLng
    /\ last.result = "Fatal"
    /\ spots[last.id].name # "Cafe"
    /\ spots[last.id].lat = Some(91000)

\* C10: with register requests interleaved between their lookup and their
\* commit, no two stored users have one username, and a register request
\* that failed at its commit found its username already stored.
C10_UniqueUsernames ==
    /\ \A i, j \in DOMAIN users :
          users[i].username = users[j].username => i = j
    /\ (last.op = "register" /\ last.result = "Fatal")
       => /\ FindUser(users, last.form.username) # 0
          /\ Len(users) <= Cardinality(Usernames)

\* Two register requests for one username both passed the lookup; one
\* committed and the other failed, leaving a single user.
C10_Witness ==
    /\ last.op = "register" /\ last.result = "Fatal"
    /\ Len(users) = 1
    /\ Some(users[1].username) = last.form.username

====
